---- MODULE Spec2Model ----
(***************************************************************************)
(* Model of app.py, the "amigo invisible" gift-exchange application:       *)
(* the participants and assignments tables, the admin handlers (panel,     *)
(* add, delete, draw, send) and the participant handler (reveal).          *)
(*                                                                         *)
(* Spec      every handler is one atomic step (one request at a time).     *)
(* SpecConc  do_draw runs statement by statement inside its database       *)
(*           transaction while panel reads and reveals interleave.         *)
(***************************************************************************)
EXTENDS Integers, Sequences, FiniteSets, TLC

VARIABLES
    participants,   \* rows of table "participants": set of [id, name, email]
    assignments,    \* committed rows of table "assignments", in id order
    issued,         \* number of uuid4 tokens generated so far
    now,            \* the wall clock read by datetime.datetime.now()
    gmail,          \* TRUE iff GMAIL_USER and GMAIL_PASSWORD are both set
    outbox,         \* number of messages handed to the SMTP server so far
    resp,           \* the response of the last completed request
    tx,             \* the open transaction of a do_draw in progress
    rv              \* a reveal request between its lookup and its commit

vars == <<participants, assignments, issued, now, gmail, outbox, resp, tx, rv>>

(***************************************************************************)
(* Bounds of the model.                                                    *)
(***************************************************************************)
MaxId == 3          \* participant ids are 1..MaxId
MaxTokens == 4      \* tokens that may be generated in one behaviour
MaxClock == 1       \* the clock runs 0..MaxClock
MaxMail == 2        \* messages the SMTP server accepts in one behaviour

(***************************************************************************)
(* Program constants.                                                      *)
(***************************************************************************)
max_intentos == 1000

\* response statuses: a rendered page, a redirect, abort(403), abort(404),
\* and an exception no handler catches
HTTP_OK == "200"
HTTP_FOUND == "302"
HTTP_FORBIDDEN == "403"
HTTP_NOT_FOUND == "404"
HTTP_ERROR == "500"

ADMIN_KEY == "admin"
\* request.args.get("key"): the configured key, or anything else (a wrong
\* key or none at all)
Keys == {"admin", "guess"}

\* an optional value: None, or Some(x)
None == <<>>
Some(x) == <<x>>

(***************************************************************************)
(* Strings are sequences of characters, so that str.strip() is computed.   *)
(***************************************************************************)
Digit == <<"1", "2", "3", "4", "5", "6", "7", "8", "9">>

RECURSIVE lstrip(_)
lstrip(s) == IF s # <<>> /\ Head(s) = " " THEN lstrip(Tail(s)) ELSE s

RECURSIVE rstrip(_)
rstrip(s) ==
    IF s # <<>> /\ s[Len(s)] = " " THEN rstrip(SubSeq(s, 1, Len(s) - 1)) ELSE s

strip(s) == rstrip(lstrip(s))

\* the form values an administrator may submit for the participant that
\* would get identifier pid
NameInputs(pid) == {<<" ">>, <<" ", "p", Digit[pid], " ">>}
EmailInputs(pid) == {<<>>, <<"m", Digit[pid]>>}

(***************************************************************************)
(* Tables.                                                                 *)
(***************************************************************************)
Range(s) == {s[i] : i \in DOMAIN s}

Ids(parts) == {p.id : p \in parts}

Max(S) == CHOOSE m \in S : \A x \in S : x <= m
Min(S) == CHOOSE m \in S : \A x \in S : m <= x

\* the integer primary key a new row of participants gets (SQLite rowid:
\* one more than the largest id in the table)
NextPid(parts) == IF parts = {} THEN 1 ELSE Max(Ids(parts)) + 1

RECURSIVE SortedSeq(_)
SortedSeq(S) ==
    IF S = {} THEN <<>> ELSE <<Min(S)>> \o SortedSeq(S \ {Min(S)})

\* db.query(Participant).all(), then [p.id for p in participants]
QueryIds(parts) == SortedSeq(Ids(parts))

\* db.query(Participant).get(pid): the rows with that primary key (at most one)
GetParticipant(parts, pid) == {p \in parts : p.id = pid}

(***************************************************************************)
(* do_draw: the rejection-sampling loop.                                   *)
(***************************************************************************)
\* the orders random.shuffle can leave a copy of ids in
Shuffles(ids) ==
    {r \in [DOMAIN ids -> Range(ids)] : Range(r) = Range(ids)}

\* no_fixed_point with the test inverted: any(g == r ...)
no_fixed_point_inverted(ids, receivers) ==
    \E i \in DOMAIN ids \cap DOMAIN receivers : ids[i] = receivers[i]

\* all(g != r for g, r in zip(ids, receivers))
no_fixed_point(ids, receivers) ==
    \A i \in DOMAIN ids \cap DOMAIN receivers : ids[i] # receivers[i]

\* The random source of one do_draw call: the shuffle leaves the list in
\* its original order on attempts 1..rnd.fails and in order rnd.order on
\* every later attempt.
FailCounts == {0, 1, max_intentos - 1}
Streams(ids) == [fails : FailCounts, order : Shuffles(ids)]

\* receivers = ids[:]; random.shuffle(receivers), on the given attempt
shuffle(ids, rnd, attempt) == IF attempt <= rnd.fails THEN ids ELSE rnd.order

\* loop_guard with <= for <: one attempt too many
loop_guard_off_by_one(s) == s.intentos <= max_intentos /\ ~s.ok

\* the loop's condition: intentos < max_intentos and not ok
loop_guard(s) == s.intentos < max_intentos /\ ~s.ok

\* one iteration of the loop body
loop_body(s, ids, rnd) ==
    LET receivers == shuffle(ids, rnd, s.intentos + 1)
    IN  [intentos |-> s.intentos + 1,
         ok |-> IF no_fixed_point(ids, receivers) THEN TRUE ELSE s.ok,
         receivers |-> receivers]

\* up to k iterations of the while loop, from loop state s
RECURSIVE iterate(_, _, _, _)
iterate(s, ids, rnd, k) ==
    IF k = 0 \/ ~loop_guard(s) THEN s
    ELSE IF k = 1 THEN loop_body(s, ids, rnd)
    ELSE iterate(iterate(s, ids, rnd, k \div 2), ids, rnd, k - (k \div 2))

\* the while loop run until its condition is false
RECURSIVE while_loop(_, _, _, _)
while_loop(s, ids, rnd, k) ==
    IF ~loop_guard(s) THEN s
    ELSE while_loop(iterate(s, ids, rnd, k), ids, rnd, 2 * k)

\* lines 138-146: intentos = 0, ok = False, then the loop
shuffle_loop(ids, rnd) ==
    while_loop([intentos |-> 0, ok |-> FALSE, receivers |-> <<>>], ids, rnd, 1)

\* f as an explicit table: its values are computed once, not at every use
Table(f) == f @@ <<>>

\* the random sources and the loop's result for every list of ids
IdSeqs == {SortedSeq(S) : S \in SUBSET (1 .. MaxId)}
StreamsMemo == Table([ids \in IdSeqs |-> Streams(ids)])
ShuffleLoopMemo ==
    Table([ids \in IdSeqs |->
            Table([rnd \in StreamsMemo[ids] |-> shuffle_loop(ids, rnd)])])

\* lines 151-158: one Assignment per (giver, receiver) pair, each with a new
\* uuid4 token; the k-th token ever generated is the number k.  Row ids are
\* the positions 1..n (the table was emptied in the same transaction).
new_assignments(ids, receivers, tokens) ==
    [i \in 1 .. Min({Len(ids), Len(receivers)}) |->
        [id |-> i, giver_id |-> ids[i], receiver_id |-> receivers[i],
         token |-> tokens + i, viewed |-> FALSE, first_seen_at |-> None]]

\* do_draw without line 135: the previous rows are not deleted
do_draw_keep_old(parts, rows, tokens, rnd) ==
    LET ids == QueryIds(parts)
        n == Len(ids)
    IN  IF n < 2
        THEN [raised |-> "ValueError", rows |-> rows, commit |-> FALSE,
              intentos |-> 0, tokens |-> tokens]
        ELSE LET loop == ShuffleLoopMemo[ids][rnd]
             IN  IF ~loop.ok
                 THEN [raised |-> "RuntimeError", rows |-> rows,
                       commit |-> FALSE, intentos |-> loop.intentos,
                       tokens |-> tokens]
                 ELSE [raised |-> "", commit |-> TRUE,
                       rows |-> rows \o new_assignments(ids, loop.receivers, tokens),
                       intentos |-> loop.intentos,
                       tokens |-> tokens + n]

\* do_draw with the size check n < 1 for n < 2
do_draw_min_one(parts, rows, tokens, rnd) ==
    LET ids == QueryIds(parts)
        n == Len(ids)
    IN  IF n < 1
        THEN [raised |-> "ValueError", rows |-> rows, commit |-> FALSE,
              intentos |-> 0, tokens |-> tokens]
        ELSE LET loop == ShuffleLoopMemo[ids][rnd]
             IN  IF ~loop.ok
                 THEN [raised |-> "RuntimeError", rows |-> <<>>,
                       commit |-> FALSE, intentos |-> loop.intentos,
                       tokens |-> tokens]
                 ELSE [raised |-> "", commit |-> TRUE,
                       rows |-> new_assignments(ids, loop.receivers, tokens),
                       intentos |-> loop.intentos,
                       tokens |-> tokens + n]

\* do_draw(db) on a session whose database holds parts and rows.  The
\* result is the exception raised ("" for none), the rows as the session
\* sees them when the call ends, and whether db.commit() was reached.
do_draw(parts, rows, tokens, rnd) ==
    LET ids == QueryIds(parts)
        n == Len(ids)
    IN  IF n < 2
        THEN [raised |-> "ValueError", rows |-> rows, commit |-> FALSE,
              intentos |-> 0, tokens |-> tokens]
        ELSE LET deleted == <<>>
                 loop == ShuffleLoopMemo[ids][rnd]
             IN  IF ~loop.ok
                 THEN [raised |-> "RuntimeError", rows |-> deleted,
                       commit |-> FALSE, intentos |-> loop.intentos,
                       tokens |-> tokens]
                 ELSE [raised |-> "", commit |-> TRUE,
                       rows |-> deleted \o new_assignments(ids, loop.receivers, tokens),
                       intentos |-> loop.intentos,
                       tokens |-> tokens + n]


(***************************************************************************)
(* Helpers of the handlers.                                                *)
(***************************************************************************)
\* require_admin that never aborts
require_admin_open(key) == TRUE

\* require_admin(): TRUE when the request goes on, FALSE when it aborts
require_admin(key) == ~(key # ADMIN_KEY)

Forbidden(op) ==
    [op |-> op, status |-> HTTP_FORBIDDEN, flash |-> "", out |-> <<>>]

\* flash(...) followed by redirect(url_for("admin_panel", key=ADMIN_KEY))
Redirect(op, category, out) ==
    [op |-> op, status |-> HTTP_FOUND, flash |-> category, out |-> out]

\* db.query(Assignment).filter_by(token=token).first(): the position of the
\* first row with that token, 0 when there is none
FirstByToken(rows, token) ==
    IF \E i \in DOMAIN rows : rows[i].token = token
    THEN Min({i \in DOMAIN rows : rows[i].token = token})
    ELSE 0

\* send_email(to_email, ...): what the call does when the SMTP server
\* accepts (accepted) or refuses the message
send_email(configured, accepted) ==
    IF ~configured THEN [raised |-> FALSE, sent |-> FALSE]
    ELSE IF accepted THEN [raised |-> FALSE, sent |-> TRUE]
    ELSE [raised |-> TRUE, sent |-> FALSE]

\* The SMTP server during one admin_send: the recipients it refuses (none,
\* any one of them, or all).
Refusals(ids) == {{}} \cup {{p} : p \in ids} \cup {ids}

\* the for loop of admin_send over rows i..Len(rows), from the counters acc
RECURSIVE send_loop(_, _, _, _, _, _)
send_loop(rows, parts, configured, refused, i, acc) ==
    IF i > Len(rows) THEN acc
    ELSE LET giver == GetParticipant(parts, rows[i].giver_id)
         IN  IF giver = {} \/ (\E p \in giver : p.email = <<>>)
             THEN send_loop(rows, parts, configured, refused, i + 1, acc)
             ELSE LET r == send_email(configured, rows[i].giver_id \notin refused)
                  IN  send_loop(rows, parts, configured, refused, i + 1,
                        [enviados |-> IF r.raised THEN acc.enviados
                                      ELSE acc.enviados + 1,
                         attempted |-> Append(acc.attempted, rows[i].giver_id),
                         delivered |-> IF r.sent
                                       THEN Append(acc.delivered, rows[i].giver_id)
                                       ELSE acc.delivered])

(***************************************************************************)
(* The handlers, one request at a time.                                    *)
(***************************************************************************)
\* GET /admin
admin_panel(key) ==
    /\ resp' = IF ~require_admin(key) THEN Forbidden("panel")
               ELSE [op |-> "panel", status |-> HTTP_OK, flash |-> "",
                     out |-> [participants |-> QueryIds(participants),
                              assignments |-> assignments]]
    /\ UNCHANGED <<participants, assignments, issued, now, gmail, outbox, tx, rv>>

\* POST /admin/add
admin_add_participant(key, name_field, email_field) ==
    /\ NextPid(participants) <= MaxId
    /\ IF ~require_admin(key)
       THEN /\ resp' = Forbidden("add")
            /\ UNCHANGED participants
       ELSE LET name == strip(name_field)
                email == strip(email_field)
            IN  IF name = <<>> \/ email = <<>>
                THEN /\ resp' = Redirect("add", "error", <<>>)
                     /\ UNCHANGED participants
                ELSE /\ participants' = participants \cup
                            {[id |-> NextPid(participants),
                              name |-> name, email |-> email]}
                     /\ resp' = Redirect("add", "success", <<>>)
    /\ UNCHANGED <<assignments, issued, now, gmail, outbox, tx, rv>>

\* admin_delete_participant that resets the draw only when the participant exists
admin_delete_if_found(key, pid) ==
    /\ IF ~require_admin(key)
       THEN /\ resp' = Forbidden("delete")
            /\ UNCHANGED <<participants, assignments>>
       ELSE /\ assignments' = IF GetParticipant(participants, pid) # {}
                               THEN <<>> ELSE assignments
            /\ participants' = participants \ GetParticipant(participants, pid)
            /\ resp' = Redirect("delete", "success",
                                [found |-> GetParticipant(participants, pid) # {},
                                 rowcount |-> Len(assignments)])
    /\ UNCHANGED <<issued, now, gmail, outbox, tx, rv>>

\* POST /admin/delete/<pid>
admin_delete_participant(key, pid) ==
    /\ IF ~require_admin(key)
       THEN /\ resp' = Forbidden("delete")
            /\ UNCHANGED <<participants, assignments>>
       ELSE /\ assignments' = <<>>
            /\ participants' = participants \ GetParticipant(participants, pid)
            /\ resp' = Redirect("delete", "success",
                                [found |-> GetParticipant(participants, pid) # {},
                                 rowcount |-> Len(assignments)])
    /\ UNCHANGED <<issued, now, gmail, outbox, tx, rv>>

\* POST /admin/draw
admin_draw(key, rnd) ==
    /\ issued + Cardinality(participants) <= MaxTokens
    /\ IF ~require_admin(key)
       THEN /\ resp' = Forbidden("draw")
            /\ UNCHANGED <<assignments, issued>>
       ELSE LET r == do_draw(participants, assignments, issued, rnd)
            IN  /\ assignments' = IF r.commit THEN r.rows ELSE assignments
                /\ issued' = r.tokens
                /\ resp' = Redirect("draw",
                                    IF r.raised = "" THEN "success" ELSE "error",
                                    [raised |-> r.raised, intentos |-> r.intentos])
    /\ UNCHANGED <<participants, now, gmail, outbox, tx, rv>>

\* POST /admin/send
admin_send(key, refused) ==
    /\ outbox + Len(assignments) <= MaxMail
    /\ IF ~require_admin(key)
       THEN /\ resp' = Forbidden("send")
            /\ UNCHANGED outbox
       ELSE LET r == send_loop(assignments, participants, gmail, refused, 1,
                               [enviados |-> 0, attempted |-> <<>>,
                                delivered |-> <<>>])
            IN  /\ outbox' = outbox + Len(r.delivered)
                /\ resp' = Redirect("send", "success", r)
    /\ UNCHANGED <<participants, assignments, issued, now, gmail, tx, rv>>

\* mark_viewed without the test of a.viewed
mark_viewed_always(a, t) == [a EXCEPT !.viewed = TRUE, !.first_seen_at = Some(t)]

\* the row a first reveal writes: viewed = True, first_seen_at = now()
mark_viewed(a, t) ==
    IF ~a.viewed THEN [a EXCEPT !.viewed = TRUE, !.first_seen_at = Some(t)]
    ELSE a

\* receiver.name if receiver else "???" (and the same for the giver)
NameOf(parts, pid, default) ==
    IF GetParticipant(parts, pid) = {} THEN default
    ELSE (CHOOSE p \in parts : p.id = pid).name

\* render_template("reveal.html", ...)
RevealPage(a, parts, t) ==
    [op |-> "reveal", status |-> HTTP_OK, flash |-> "",
     out |-> [token |-> a.token, served_at |-> t,
              giver_name |-> NameOf(parts, a.giver_id, <<"P">>),
              receiver_name |-> NameOf(parts, a.receiver_id, <<"?">>),
              first_seen_at |-> a.first_seen_at]]

\* GET /revelar/<token>
reveal(token) ==
    /\ LET i == FirstByToken(assignments, token)
       IN  IF i = 0
           THEN /\ resp' = [op |-> "reveal", status |-> HTTP_NOT_FOUND,
                            flash |-> "", out |-> <<>>]
                /\ UNCHANGED assignments
           ELSE LET a == mark_viewed(assignments[i], now)
                IN  /\ assignments' = [assignments EXCEPT ![i] = a]
                    /\ resp' = RevealPage(a, participants, now)
    /\ UNCHANGED <<participants, issued, now, gmail, outbox, tx, rv>>

\* time passes
Tick ==
    /\ now < MaxClock
    /\ now' = now + 1
    /\ UNCHANGED <<participants, assignments, issued, gmail, outbox, resp, tx, rv>>

\* the tokens a visitor may present: every token generated so far, and 0,
\* which was never generated
Tokens == 0 .. issued

Init ==
    /\ participants = {}
    /\ assignments = <<>>
    /\ issued = 0
    /\ now = 0
    /\ gmail \in BOOLEAN
    /\ outbox = 0
    /\ resp = [op |-> "none", status |-> HTTP_OK, flash |-> "", out |-> <<>>]
    /\ tx = [pc |-> "idle"]
    /\ rv = [pc |-> "idle"]

Next ==
    \/ \E key \in Keys : admin_panel(key)
    \/ \E key \in Keys :
         \E name_field \in NameInputs(NextPid(participants)),
            email_field \in EmailInputs(NextPid(participants)) :
              admin_add_participant(key, name_field, email_field)
    \/ \E key \in Keys, pid \in 1 .. MaxId : admin_delete_participant(key, pid)
    \/ \E key \in Keys :
         \E rnd \in StreamsMemo[QueryIds(participants)] : admin_draw(key, rnd)
    \/ \E key \in Keys :
         \E refused \in Refusals(Ids(participants)) : admin_send(key, refused)
    \/ \E token \in Tokens : reveal(token)
    \/ Tick

Spec == Init /\ [][Next]_vars

(***************************************************************************)
(* Concurrent requests.  The administrator adds, deletes and draws, one    *)
(* request at a time; reveals and panel reads arrive at any moment, also   *)
(* while do_draw is between two of its statements.  Every session reads    *)
(* the committed rows; a session's own writes stay in its transaction      *)
(* until db.commit(), and are discarded when the request ends without it.  *)
(* The transaction that has written holds the database's write lock.       *)
(***************************************************************************)
AdminIdle == tx.pc = "idle"

\* do_draw has deleted the old rows and has not yet committed
InDraw == tx.pc \in {"deleted", "shuffled"}

\* require_admin(), then lines 127-132 of do_draw
draw_begin(key) ==
    /\ AdminIdle
    /\ issued + Cardinality(participants) <= MaxTokens
    /\ IF ~require_admin(key)
       THEN /\ resp' = Forbidden("draw")
            /\ UNCHANGED tx
       ELSE LET ids == QueryIds(participants)
            IN  IF Len(ids) < 2
                THEN /\ resp' = Redirect("draw", "error",
                                  [raised |-> "ValueError", intentos |-> 0])
                     /\ UNCHANGED tx
                ELSE /\ tx' = [pc |-> "read", ids |-> ids]
                     /\ UNCHANGED resp
    /\ UNCHANGED <<participants, assignments, issued, now, gmail, outbox, rv>>

\* draw_delete committed on its own, before the new rows exist
draw_delete_autocommit ==
    /\ tx.pc = "read"
    /\ tx' = [pc |-> "deleted", ids |-> tx.ids, old |-> assignments,
              rows |-> <<>>, deleted_at |-> now]
    /\ assignments' = <<>>
    /\ UNCHANGED <<participants, issued, now, gmail, outbox, resp, rv>>

\* line 135: db.query(Assignment).delete(), inside the transaction (old
\* and deleted_at record the rows it removed and when)
draw_delete ==
    /\ tx.pc = "read"
    /\ tx' = [pc |-> "deleted", ids |-> tx.ids, old |-> assignments,
              rows |-> <<>>, deleted_at |-> now]
    /\ UNCHANGED <<participants, assignments, issued, now, gmail, outbox, resp, rv>>

\* lines 138-149: the shuffle loop; RuntimeError ends the request and the
\* session's teardown rolls the transaction back
draw_shuffle(rnd) ==
    /\ tx.pc = "deleted"
    /\ LET loop == ShuffleLoopMemo[tx.ids][rnd]
       IN  IF ~loop.ok
           THEN /\ tx' = [pc |-> "idle"]
                /\ resp' = Redirect("draw", "error",
                             [raised |-> "RuntimeError", intentos |-> loop.intentos])
           ELSE /\ tx' = [pc |-> "shuffled", ids |-> tx.ids, old |-> tx.old,
                          rows |-> tx.rows, deleted_at |-> tx.deleted_at,
                          loop |-> loop]
                /\ UNCHANGED resp
    /\ UNCHANGED <<participants, assignments, issued, now, gmail, outbox, rv>>

\* lines 151-160: the new rows are added to the session and db.commit()
\* writes them, with the delete, in one transaction
draw_commit ==
    /\ tx.pc = "shuffled"
    /\ assignments' = tx.rows \o new_assignments(tx.ids, tx.loop.receivers, issued)
    /\ issued' = issued + Len(tx.ids)
    /\ tx' = [pc |-> "idle"]
    /\ resp' = Redirect("draw", "success",
                        [raised |-> "", intentos |-> tx.loop.intentos])
    /\ UNCHANGED <<participants, now, gmail, outbox, rv>>

\* lines 300-306 of reveal: the lookup; a first view goes on to db.commit()
reveal_lookup(token) ==
    /\ rv.pc = "idle"
    /\ LET i == FirstByToken(assignments, token)
       IN  IF i = 0
           THEN /\ resp' = [op |-> "reveal", status |-> HTTP_NOT_FOUND,
                            flash |-> "", out |-> <<>>]
                /\ UNCHANGED rv
           ELSE IF assignments[i].viewed
           THEN /\ resp' = RevealPage(assignments[i], participants, now)
                /\ UNCHANGED rv
           ELSE /\ rv' = [pc |-> "commit", row |-> mark_viewed(assignments[i], now)]
                /\ UNCHANGED resp
    /\ UNCHANGED <<participants, assignments, issued, now, gmail, outbox, tx>>

\* line 307: db.commit() sends UPDATE assignments ... WHERE id = <row id>;
\* lines 309-317 then reload the row by its id and render it.  A row of
\* that id that is gone makes the commit raise.
reveal_commit ==
    /\ rv.pc = "commit"
    /\ ~InDraw
    /\ rv' = [pc |-> "idle"]
    /\ IF rv.row.id \in DOMAIN assignments
       THEN LET a == [assignments[rv.row.id] EXCEPT
                         !.viewed = rv.row.viewed,
                         !.first_seen_at = rv.row.first_seen_at]
            IN  /\ assignments' = [assignments EXCEPT ![rv.row.id] = a]
                /\ resp' = RevealPage(a, participants, now)
       ELSE /\ resp' = [op |-> "reveal", status |-> HTTP_ERROR, flash |-> "",
                        out |-> <<>>]
            /\ UNCHANGED assignments
    /\ UNCHANGED <<participants, issued, now, gmail, outbox, tx>>

\* line 307 while do_draw holds the write lock: the commit waits (it is
\* reveal_commit once the lock is free) or gives up with "database is locked"
reveal_locked ==
    /\ rv.pc = "commit"
    /\ InDraw
    /\ rv' = [pc |-> "idle"]
    /\ resp' = [op |-> "reveal", status |-> HTTP_ERROR, flash |-> "",
                out |-> <<>>]
    /\ UNCHANGED <<participants, assignments, issued, now, gmail, outbox, tx>>

NextConc ==
    \/ \E key \in Keys : admin_panel(key)
    \/ /\ AdminIdle
       /\ \E key \in Keys :
            \E name_field \in NameInputs(NextPid(participants)),
               email_field \in EmailInputs(NextPid(participants)) :
                 admin_add_participant(key, name_field, email_field)
    \/ /\ AdminIdle
       /\ \E key \in Keys, pid \in 1 .. MaxId : admin_delete_participant(key, pid)
    \/ \E key \in Keys : draw_begin(key)
    \/ draw_delete
    \/ /\ tx.pc = "deleted"
       /\ \E rnd \in StreamsMemo[tx.ids] : draw_shuffle(rnd)
    \/ draw_commit
    \/ \E token \in Tokens : reveal_lookup(token)
    \/ reveal_commit
    \/ reveal_locked
    \/ Tick

\* no request of NextConc sends email: the transport is left unconfigured
InitConc == Init /\ ~gmail

SpecConc == InitConc /\ [][NextConc]_vars

(***************************************************************************)
(* Properties.                                                             *)
(***************************************************************************)
Givers(rows) == {rows[i].giver_id : i \in DOMAIN rows}
Receivers(rows) == {rows[i].receiver_id : i \in DOMAIN rows}

\* rows pair every member of S once as giver and once as receiver, and
\* nobody with themselves
IsDerangementOf(rows, S) ==
    /\ Len(rows) = Cardinality(S)
    /\ \A p \in S :
         /\ Cardinality({i \in DOMAIN rows : rows[i].giver_id = p}) = 1
         /\ Cardinality({i \in DOMAIN rows : rows[i].receiver_id = p}) = 1
    /\ \A i \in DOMAIN rows : rows[i].giver_id # rows[i].receiver_id

DrawAnswered == resp.op = "draw" /\ resp.status = HTTP_FOUND
DrawSucceeded == DrawAnswered /\ resp.flash = "success"

\* C1: after a successful draw over n >= 2 participants the stored rows are
\* exactly n, all written by this draw (its n tokens, none viewed), every
\* participant is the giver of exactly one and the receiver of exactly one,
\* and no row pairs a participant with themselves.
C1_DrawIsDerangement ==
    DrawSucceeded =>
        LET n == Cardinality(participants)
        IN  /\ n >= 2
            /\ IsDerangementOf(assignments, Ids(participants))
            /\ \A i \in DOMAIN assignments :
                 /\ assignments[i].token \in (issued - n + 1) .. issued
                 /\ ~assignments[i].viewed
                 /\ assignments[i].first_seen_at = None

\* a second draw has replaced the rows of the first
C1_Witness ==
    /\ DrawSucceeded
    /\ Cardinality(participants) = 2
    /\ issued = 4

\* C2 (as claimed): in every reachable state the committed rows are empty or
\* a fixed-point-free permutation of the current participants.
C2_EmptyOrValid ==
    assignments = <<>> \/ IsDerangementOf(assignments, Ids(participants))

\* C3: a first reveal of a row sets viewed and stamps first_seen_at with the
\* current time; while a row exists no step clears viewed, changes a set
\* first_seen_at, or changes its receiver or the receiver's name; and every
\* reveal of an existing row answers with that receiver and that timestamp.
C3_RevealOnce ==
    [][ /\ (assignments' # assignments \/ participants' # participants) =>
             \A i \in DOMAIN assignments, j \in DOMAIN assignments' :
               assignments[i].token = assignments'[j].token =>
                 /\ assignments'[j].receiver_id = assignments[i].receiver_id
                 /\ NameOf(participants', assignments'[j].receiver_id, <<"?">>)
                      = NameOf(participants, assignments[i].receiver_id, <<"?">>)
                 /\ assignments[i].viewed =>
                      /\ assignments'[j].viewed
                      /\ assignments'[j].first_seen_at = assignments[i].first_seen_at
        /\ (resp'.op = "reveal" /\ now' = now) =>
           \A token \in Tokens :
             (reveal(token) /\ FirstByToken(assignments, token) # 0) =>
               LET a == assignments[FirstByToken(assignments, token)]
                   b == assignments'[FirstByToken(assignments', token)]
               IN  /\ FirstByToken(assignments', token) # 0
                   /\ b.viewed
                   /\ ~a.viewed => b.first_seen_at = Some(now)
                   /\ resp'.status = HTTP_OK
                   /\ resp'.out.first_seen_at = b.first_seen_at
                   /\ resp'.out.receiver_name
                        = NameOf(participants, a.receiver_id, <<"?">>)
      ]_vars

\* a row first seen at time 0 has been revealed again at time 1
C3_Witness ==
    /\ resp.op = "reveal"
    /\ resp.status = HTTP_OK
    /\ resp.out.served_at = 1
    /\ resp.out.first_seen_at = Some(0)

\* C4: an authorized delete leaves no assignment row, whatever rows there
\* were and whether or not pid exists, and removes participant pid and no other.
C4_DeleteClears ==
    [][ (resp'.op = "delete" /\ now' = now) =>
        \A pid \in 1 .. MaxId :
          admin_delete_participant(ADMIN_KEY, pid) =>
            /\ assignments' = <<>>
            /\ Ids(participants') = Ids(participants) \ {pid}
            /\ participants' \subseteq participants
      ]_vars

\* a delete of an unknown pid has removed the rows of a draw
C4_Witness ==
    /\ resp.op = "delete"
    /\ resp.status = HTTP_FOUND
    /\ ~resp.out.found
    /\ resp.out.rowcount >= 2

\* C5: an authorized draw with fewer than 2 participants answers with the
\* ValueError message and changes neither table.
C5_TooFewParticipants ==
    [][ (resp'.op = "draw" /\ now' = now /\ Cardinality(participants) < 2) =>
        \A rnd \in StreamsMemo[QueryIds(participants)] :
          admin_draw(ADMIN_KEY, rnd) =>
            /\ resp'.flash = "error"
            /\ resp'.out.raised = "ValueError"
            /\ UNCHANGED <<participants, assignments, issued>>
      ]_vars

\* a draw over a single participant was refused
C5_Witness ==
    /\ DrawAnswered
    /\ resp.out.raised = "ValueError"
    /\ Cardinality(participants) = 1

\* a step of one of the five admin handlers, called with key (every handler
\* answers under its own name and leaves the clock alone)
AdminRequest(key) ==
    /\ now' = now
    /\ \/ resp'.op = "panel" /\ admin_panel(key)
       \/ /\ resp'.op = "add"
          /\ \E name_field \in NameInputs(NextPid(participants)),
                email_field \in EmailInputs(NextPid(participants)) :
                  admin_add_participant(key, name_field, email_field)
       \/ /\ resp'.op = "delete"
          /\ \E pid \in 1 .. MaxId : admin_delete_participant(key, pid)
       \/ /\ resp'.op = "draw"
          /\ \E rnd \in StreamsMemo[QueryIds(participants)] : admin_draw(key, rnd)
       \/ /\ resp'.op = "send"
          /\ \E refused \in Refusals(Ids(participants)) : admin_send(key, refused)

\* C6: every admin request with a key other than ADMIN_KEY is answered 403
\* and changes no table, generates no token and sends no email.
C6_WrongKeyForbidden ==
    [][ now' = now =>
        \A key \in Keys \ {ADMIN_KEY} :
          AdminRequest(key) =>
            /\ resp'.status = HTTP_FORBIDDEN
            /\ UNCHANGED <<participants, assignments, issued, outbox>>
      ]_vars

\* a send with a wrong key was refused while there were rows to notify
C6_Witness ==
    /\ resp.op = "send"
    /\ resp.status = HTTP_FORBIDDEN
    /\ assignments # <<>>
    /\ gmail

\* C7: what a panel read or a reveal lookup sees while do_draw is between
\* its delete and its commit is the complete set of rows from before the
\* delete, and what any read sees is empty or a complete derangement.
C7_ReadersSeeWholeSet ==
    [][ /\ (resp'.op = "panel" /\ now' = now) =>
           \A key \in Keys :
             (require_admin(key) /\ admin_panel(key)) =>
               /\ InDraw => resp'.out.assignments = tx.old
               /\ \/ resp'.out.assignments = <<>>
                  \/ IsDerangementOf(resp'.out.assignments,
                                     Givers(resp'.out.assignments))
        /\ (InDraw /\ now' = now) =>
           \A token \in Tokens :
             reveal_lookup(token) =>
               IF FirstByToken(tx.old, token) = 0
               THEN resp'.status = HTTP_NOT_FOUND
               ELSE \/ /\ rv'.pc = "commit"
                       /\ rv'.row.token = token
                    \/ /\ resp'.op = "reveal"
                       /\ resp'.status = HTTP_OK
                       /\ resp'.out.token = token
      ]_vars

\* a reveal served after the delete of a second draw, and before its
\* commit, has shown a row of the first draw
C7_Witness ==
    /\ InDraw
    /\ resp.op = "reveal"
    /\ resp.status = HTTP_OK
    /\ resp.out.served_at > tx.deleted_at
    /\ \E i \in DOMAIN tx.old : tx.old[i].token = resp.out.token

Swap(rows, ids) ==
    /\ Len(rows) = 2
    /\ rows[1].giver_id = ids[1] /\ rows[1].receiver_id = ids[2]
    /\ rows[2].giver_id = ids[2] /\ rows[2].receiver_id = ids[1]

HasFixedPoint(ids, receivers) == \E i \in DOMAIN ids : ids[i] = receivers[i]

\* the first attempt of random source rnd whose order has no fixed point,
\* 0 when none of the max_intentos attempts is one
FirstWithoutFixedPoint ==
    Table([ids \in IdSeqs |->
            Table([rnd \in StreamsMemo[ids] |->
                    LET good == {i \in 1 .. max_intentos :
                                   ~HasFixedPoint(ids, shuffle(ids, rnd, i))}
                    IN  IF good = {} THEN 0 ELSE Min(good)])])

\* C9: the loop of an authorized draw over n >= 2 participants makes between
\* 1 and max_intentos attempts; it stops, and the draw succeeds, at the
\* first attempt whose order has no fixed point; and when all max_intentos
\* attempts have one the draw answers with the RuntimeError message, writes
\* no row and generates no token.
C9_LoopStopsAtFirstOrCap ==
    [][ (resp'.op = "draw" /\ now' = now /\ Cardinality(participants) >= 2) =>
        \A rnd \in StreamsMemo[QueryIds(participants)] :
          admin_draw(ADMIN_KEY, rnd) =>
            LET first == FirstWithoutFixedPoint[QueryIds(participants)][rnd]
                k == resp'.out.intentos
            IN  /\ k \in 1 .. max_intentos
                /\ first # 0 =>
                     /\ k = first
                     /\ resp'.out.raised = ""
                     /\ resp'.flash = "success"
                /\ first = 0 =>
                     /\ k = max_intentos
                     /\ resp'.out.raised = "RuntimeError"
                     /\ resp'.flash = "error"
                     /\ UNCHANGED <<assignments, issued>>
      ]_vars

\* a draw gave up after max_intentos attempts and the earlier rows remain
C9_Witness ==
    /\ DrawAnswered
    /\ resp.out.raised = "RuntimeError"
    /\ resp.out.intentos = max_intentos
    /\ assignments # <<>>

\* C10 (as claimed): a send attempts every row's giver in turn and reports
\* the number of emails actually sent.
C10_CountIsEmailsSent ==
    (resp.op = "send" /\ resp.status = HTTP_FOUND) =>
        /\ resp.out.attempted = [i \in DOMAIN assignments |-> assignments[i].giver_id]
        /\ resp.out.enviados = Len(resp.out.delivered)

====
